---- MODULE Spec2Model ----
(***************************************************************************)
(* A model of the question-answering session of main.py: the bulk load,    *)
(* the session loop of main() and the five per-question stages             *)
(* (identify_relevant_schema, create_focused_schema, generate_sql,         *)
(* run_query, get_ans), together with the SQLite store they talk to.       *)
(*                                                                         *)
(* A row of a table is modelled by its position (1, 2, ...) in the table;  *)
(* a table of the store is modelled by its number of rows.  Texts returned *)
(* by the completion service are modelled structurally: a selector         *)
(* response by its syntactic kind and its payload, an SQL text by its      *)
(* sequence of tokens.                                                     *)
(***************************************************************************)
EXTENDS Integers, Sequences, FiniteSets, TLC

----------------------------------------------------------------------------
(* Bounds of the model *)

MaxRows == 11          \* rows of the largest table
MaxQuestions == 2      \* questions asked in one session
MaxTables == 2         \* length of the "tables" list of a selection

(* Program constants *)

SampleLimit == 3       \* get_table_sample(..., limit=3)
PromptLimit == 10      \* get_ans: result[:10]
DisplayLimit == 10     \* main: result[:10], len(result) > 10

----------------------------------------------------------------------------
(* Helpers on sequences *)

Min(a, b) == IF a < b THEN a ELSE b

Take(s, n) == SubSeq(s, 1, Min(Len(s), n))

Range(s) == {s[i] : i \in 1..Len(s)}

----------------------------------------------------------------------------
(* The store *)

TableNames == {"students", "teachers"}

\* a name the selector or the synthesizer may invent; never a table
Ghost == "ghost"

AllNames == TableNames \cup {Ghost}

TableColumns == <<"name", "grade">>

NoTables == [t \in {} |-> 0]

RowsOf(st, t) == [i \in 1..st[t] |-> i]

\* the stores the bulk load can produce: a file that fails to load is skipped
LoadedStores ==
    { [t \in ts |-> IF t = "students" THEN n ELSE 2] :
        ts \in SUBSET TableNames, n \in {0, MaxRows} }

----------------------------------------------------------------------------
(* Values of Python variables *)

NoColumns == [t \in {} |-> {}]

\* the value bound to schema_info: a dict with its three keys, or a value
\* of another type (an int, a list) that eval can produce
Dict(tables, cols, reasoning) ==
    [type |-> "dict", tables |-> tables, columns |-> cols,
     reasoning |-> reasoning]

NonDict(type) ==
    [type |-> type, tables |-> <<>>, columns |-> NoColumns, reasoning |-> ""]

\* the dict returned by the except branch of identify_relevant_schema
EmptySelection == Dict(<<>>, NoColumns, "Failed to parse response")

\* (columns, rows) and (None, str(e)) as returned by run_query
Success(names, rows) ==
    [columns |-> [isNone |-> FALSE, names |-> names],
     result  |-> [isStr |-> FALSE, text |-> "", rows |-> rows]]

Failure(msg) ==
    [columns |-> [isNone |-> TRUE, names |-> <<>>],
     result  |-> [isStr |-> TRUE, text |-> msg, rows |-> <<>>]]

NoResult == Success(<<>>, <<>>)

----------------------------------------------------------------------------
(* Relevance Selector *)

TableLists ==
    { s \in UNION { [1..n -> AllNames] : n \in 0..MaxTables } :
        \A i, j \in 1..Len(s) : i # j => s[i] # s[j] }

ColumnMaps == { NoColumns, [t \in {"students"} |-> {"grade"}] }

\* A response text of the completion service, by its syntax:
\*   "json"      a JSON object of strings, lists and objects, e.g.
\*               {"tables": ["students"], "columns": {}, "reasoning": "r"}
\*   "json_null" a JSON object that uses null, true or false
\*   "pydict"    a Python dict display with single-quoted strings
\*   "arith"     an arithmetic expression such as 1+1
\*   "truncated" an object cut off by max_tokens
\*   "name"      a bare word
Text(kind, tables, cols) == [kind |-> kind, tables |-> tables, columns |-> cols]

SelectorTexts ==
    { Text("json", l, c) : l \in TableLists,
                           c \in {NoColumns} }
    \cup { Text("json", l, c) :
             l \in {s \in TableLists : "students" \in Range(s)},
             c \in ColumnMaps }
    \cup { Text(k, <<"students">>, NoColumns) :
             k \in {"json_null", "pydict"} }
    \cup { Text(k, <<>>, NoColumns) : k \in {"arith", "truncated", "name"} }

NoText == Text("none", <<>>, NoColumns)

\* what a strict JSON parser accepts
IsJson(text) == text.kind \in {"json", "json_null"}

\* Python's eval of the text: the value of the expression, or an exception
\* (SyntaxError for a cut-off object, NameError for null/true/false and
\* for a bare word)
PyEval(text) ==
    CASE text.kind \in {"json", "pydict"} ->
           [raised |-> FALSE, value |-> Dict(text.tables, text.columns, "r")]
      [] text.kind = "arith" ->
           [raised |-> FALSE, value |-> NonDict("int")]
      [] OTHER ->
           [raised |-> TRUE, value |-> NonDict("none")]

\* try: return eval(content)  except: return {...}
identify_relevant_schema(text) ==
    LET r == PyEval(text)
    IN  IF r.raised THEN EmptySelection ELSE r.value

----------------------------------------------------------------------------
(* Schema Introspector and Focused-Schema Builder *)

\* PRAGMA table_info: no rows for a table the store does not have
TableInfo(st, t) == IF t \in DOMAIN st THEN TableColumns ELSE <<>>

\* get_table_sample: SELECT * FROM t LIMIT 3 raises for a missing table;
\* the connection is closed only on the success path
get_table_sample(st, t) ==
    IF t \in DOMAIN st
    THEN [raised |-> FALSE, error |-> "",
          columns |-> TableColumns, rows |-> Take(RowsOf(st, t), SampleLimit),
          leaked |-> 0]
    ELSE [raised |-> TRUE, error |-> "no such table",
          columns |-> <<>>, rows |-> <<>>, leaked |-> 1]

\* schema_info.get("columns", {}).get(table, [])
RelevantCols(info, t) ==
    IF t \in DOMAIN info.columns THEN info.columns[t] ELSE {}

FilterCols(cols, relevant) ==
    IF relevant = {} THEN cols
    ELSE SelectSeq(cols, LAMBDA c : c \in relevant)

\* the loop of create_focused_schema over tables[i..]; every iteration
\* opens a connection that is never closed
RECURSIVE FocusLoop(_, _, _, _, _)
FocusLoop(st, info, i, blocks, leaked) ==
    IF i > Len(info.tables)
    THEN [raised |-> FALSE, error |-> "", blocks |-> blocks, leaked |-> leaked]
    ELSE LET t      == info.tables[i]
             rel    == RelevantCols(info, t)
             sample == get_table_sample(st, t)
             block  == [table    |-> t,
                        columns  |-> FilterCols(TableInfo(st, t), rel),
                        filtered |-> rel # {},
                        samples  |-> sample.rows]
         IN  IF sample.raised
             THEN [raised |-> TRUE, error |-> sample.error,
                   blocks |-> blocks, leaked |-> leaked + 1 + sample.leaked]
             ELSE FocusLoop(st, info, i + 1, Append(blocks, block),
                            leaked + 1)

\* schema_info.get raises AttributeError on a value that is not a dict
create_focused_schema(st, info) ==
    IF info.type # "dict"
    THEN [raised |-> TRUE, error |-> "object has no attribute get",
          blocks |-> <<>>, leaked |-> 0]
    ELSE FocusLoop(st, info, 1, <<>>, 0)

----------------------------------------------------------------------------
(* Query Synthesizer and Query Executor *)

\* the backtick character
Tick == "BACKTICK"

\* the statements the completion service is taken to write, as tokens
Statements ==
    { <<"SELECT", t>> : t \in AllNames }
    \cup { <<"SELECT", "students", "WHERE_FALSE">> }
    \cup { <<"DROP", t>> : t \in {"students", Ghost} }
    \cup { <<"INSERT", "students">>, <<"SELEC">>, <<>> }

\* the texts generate_sql can return: a statement, a statement in single
\* backticks, a statement in a triple-backtick sql fence
SqlTexts ==
    Statements
    \cup { <<Tick>> \o <<"SELECT", "students">> \o <<Tick>>,
           <<Tick, Tick, Tick, "sql">> \o <<"SELECT", "students">>
               \o <<Tick, Tick, Tick>> }

RECURSIVE LStrip(_)
LStrip(s) == IF s # <<>> /\ Head(s) = Tick THEN LStrip(Tail(s)) ELSE s

RECURSIVE RStrip(_)
RStrip(s) ==
    IF s # <<>> /\ s[Len(s)] = Tick THEN RStrip(SubSeq(s, 1, Len(s) - 1))
    ELSE s

\* sql_query.strip(backtick)
StripTicks(s) == RStrip(LStrip(s))

Rejected(msg, st, locked) ==
    [rejected |-> TRUE, error |-> msg, described |-> FALSE,
     names |-> <<>>, rows |-> <<>>, store |-> st, locked |-> locked]

Rows(names, rows, st, locked) ==
    [rejected |-> FALSE, error |-> "", described |-> TRUE,
     names |-> names, rows |-> rows, store |-> st, locked |-> locked]

NoRows(st, locked) ==
    [rejected |-> FALSE, error |-> "", described |-> FALSE,
     names |-> <<>>, rows |-> <<>>, store |-> st, locked |-> locked]

\* cursor.execute(sql_query) on a fresh connection.  locked: another
\* connection holds an uncommitted write.  A data-definition statement is
\* committed as it runs; INSERT opens a transaction that is never committed.
Execute(st, locked, sql) ==
    CASE sql = <<>> -> NoRows(st, locked)
      [] Len(sql) = 2 /\ sql[1] = "SELECT" ->
           IF sql[2] \in DOMAIN st
           THEN Rows(TableColumns, RowsOf(st, sql[2]), st, locked)
           ELSE Rejected("no such table", st, locked)
      [] Len(sql) = 3 /\ sql[1] = "SELECT" /\ sql[3] = "WHERE_FALSE" ->
           IF sql[2] \in DOMAIN st
           THEN Rows(TableColumns, <<>>, st, locked)
           ELSE Rejected("no such table", st, locked)
      [] Len(sql) = 2 /\ sql[1] = "DROP" ->
           IF sql[2] \notin DOMAIN st
           THEN Rejected("no such table", st, locked)
           ELSE IF locked
           THEN Rejected("database is locked", st, locked)
           ELSE NoRows([t \in DOMAIN st \ {sql[2]} |-> st[t]], locked)
      [] Len(sql) = 2 /\ sql[1] = "INSERT" ->
           IF sql[2] \notin DOMAIN st
           THEN Rejected("no such table", st, locked)
           ELSE IF locked
           THEN Rejected("database is locked", st, locked)
           ELSE NoRows(st, TRUE)
      [] OTHER -> Rejected("syntax error", st, locked)

\* run_query: every exception becomes (None, str(e)); cursor.description is
\* None for a statement that returns no rows, and iterating it raises
\* TypeError; conn.close() is reached on the success path only
run_query(st, locked, sql) ==
    LET e == Execute(st, locked, sql)
    IN  IF e.rejected
        THEN [ret |-> Failure(e.error), store |-> e.store,
              locked |-> e.locked, leaked |-> 1]
        ELSE IF ~e.described
        THEN [ret |-> Failure("NoneType object is not iterable"),
              store |-> e.store, locked |-> e.locked, leaked |-> 1]
        ELSE [ret |-> Success(e.names, e.rows), store |-> e.store,
              locked |-> e.locked, leaked |-> 0]

----------------------------------------------------------------------------
(* Result Explainer *)

\* the whole result is written into the prompt
PromptRows_All(rows) == rows

\* the rows written into the prompt: "No results found" or result[:10]
PromptRows(rows) == IF rows = <<>> THEN <<>> ELSE Take(rows, PromptLimit)

\* for row in result[:10]: print(row)
DisplayRows(rows) == Take(rows, DisplayLimit)

\* if len(result) > 10: print(f"... ({len(result)-10} more rows)")
MoreRows(rows) ==
    IF Len(rows) > DisplayLimit THEN Len(rows) - DisplayLimit ELSE 0

----------------------------------------------------------------------------
(* Pipeline Controller: main() *)

VARIABLES
    pc,             \* position of main(): "start", "awaiting", a stage, "terminated"
    store,          \* the database file: table name -> number of rows
    locked,         \* an unclosed connection holds an uncommitted write
    openConns,      \* connections opened and not closed
    schema,         \* the schema read once by get_db_schema
    qcount,         \* questions asked so far
    failures,       \* questions that ended with an error message
    user_question,
    response_text,  \* the completion text read by identify_relevant_schema
    schema_info,
    focused_schema,
    sql_query,
    columns,
    result,
    prompt_rows,    \* the rows get_ans wrote into its prompt
    out,            \* what was printed for the current question
    calls           \* the stage calls of the current question, in order

vars == <<pc, store, locked, openConns, schema, qcount, failures,
          user_question, response_text, schema_info, focused_schema,
          sql_query, columns, result, prompt_rows, out, calls>>

Lines == {"quit", "QUIT", "How many students are in grade 5?"}

\* user_question.lower()
Lower(line) == IF line = "QUIT" THEN "quit" ELSE line

NoOut == [error |-> "", columns |-> FALSE, answer |-> FALSE,
          rows |-> <<>>, more |-> 0]

NoFocus == [reasoning |-> "", blocks |-> <<>>]

Unset == NonDict("unset")

Called(fn, outcome) == [fn |-> fn, outcome |-> outcome]

StageOrder == <<"selecting", "building", "synthesizing", "executing",
                "explaining">>

StageFn(stage) ==
    CASE stage = "selecting"    -> "identify_relevant_schema"
      [] stage = "building"     -> "create_focused_schema"
      [] stage = "synthesizing" -> "generate_sql"
      [] stage = "executing"    -> "run_query"
      [] stage = "explaining"   -> "get_ans"

Successor(stage) ==
    CASE stage = "selecting"    -> "building"
      [] stage = "building"     -> "synthesizing"
      [] stage = "synthesizing" -> "executing"
      [] stage = "executing"    -> "explaining"
      [] stage = "explaining"   -> "awaiting"

\* a stage that raises leaves main() altogether
AfterStage_Uncaught(stage, raised) ==
    IF raised THEN "terminated" ELSE Successor(stage)

\* a stage that raises is followed by the next stage
AfterStage_Swallowed(stage, raised) == Successor(stage)

\* the try/except of the loop body: an exception of any stage is printed
\* and the loop goes back to input()
AfterStage(stage, raised) ==
    IF raised THEN "awaiting" ELSE Successor(stage)

\* if not result:
IsFailure_Falsy(res) == IF res.isStr THEN res.text = "" ELSE res.rows = <<>>

\* isinstance(result, str)
IsFailure(res) == res.isStr

Init ==
    /\ pc = "start"
    /\ store = NoTables
    /\ locked = FALSE
    /\ openConns = 0
    /\ schema = {}
    /\ qcount = 0
    /\ failures = 0
    /\ user_question = ""
    /\ response_text = NoText
    /\ schema_info = Unset
    /\ focused_schema = NoFocus
    /\ sql_query = <<>>
    /\ columns = NoResult.columns
    /\ result = NoResult.result
    /\ prompt_rows = <<>>
    /\ out = NoOut
    /\ calls = <<>>

\* make_db and get_db_schema; both close the connection they open
Startup ==
    /\ pc = "start"
    /\ \E st \in LoadedStores :
         /\ store' = st
         /\ schema' = DOMAIN st
    /\ pc' = "awaiting"
    /\ UNCHANGED <<locked, openConns, qcount, failures, user_question,
                   response_text, schema_info, focused_schema, sql_query,
                   columns, result, prompt_rows, out, calls>>

\* input() returns a question; the variables of the loop body hold nothing
\* that is read before the stages assign them again
AskQuestion ==
    /\ pc = "awaiting"
    /\ qcount < MaxQuestions
    /\ \E line \in Lines :
         /\ Lower(line) # "quit"
         /\ user_question' = line
    /\ qcount' = qcount + 1
    /\ pc' = "selecting"
    /\ response_text' = NoText
    /\ schema_info' = Unset
    /\ focused_schema' = NoFocus
    /\ sql_query' = <<>>
    /\ columns' = NoResult.columns
    /\ result' = NoResult.result
    /\ prompt_rows' = <<>>
    /\ out' = NoOut
    /\ calls' = <<>>
    /\ UNCHANGED <<store, locked, openConns, schema, failures>>

\* input() returns the quit token
Quit ==
    /\ pc = "awaiting"
    /\ \E line \in Lines :
         /\ Lower(line) = "quit"
         /\ user_question' = line
    /\ pc' = "terminated"
    /\ UNCHANGED <<store, locked, openConns, schema, qcount, failures,
                   response_text, schema_info, focused_schema, sql_query,
                   columns, result, prompt_rows, out, calls>>

\* the garbage collector finalizes the connections that were never closed;
\* an uncommitted write is rolled back
Collect ==
    /\ pc = "awaiting"
    /\ openConns > 0
    /\ openConns' = 0
    /\ locked' = FALSE
    /\ UNCHANGED <<pc, store, schema, qcount, failures, user_question,
                   response_text, schema_info, focused_schema, sql_query,
                   columns, result, prompt_rows, out, calls>>

\* a stage raised: except Exception as e: print(f"Error: {str(e)}")
Raise(stage, msg) ==
    /\ calls' = Append(calls, Called(StageFn(stage), "raised"))
    /\ out' = [out EXCEPT !.error = msg]
    /\ failures' = failures + 1
    /\ pc' = AfterStage(stage, TRUE)

Return(stage) ==
    /\ calls' = Append(calls, Called(StageFn(stage), "ok"))
    /\ pc' = AfterStage(stage, FALSE)

\* schema_info = identify_relevant_schema(schema, user_question)
SelectSchema ==
    /\ pc = "selecting"
    /\ \/ /\ Raise("selecting", "completion failed")
          /\ UNCHANGED <<response_text, schema_info>>
       \/ /\ \E text \in SelectorTexts :
               /\ response_text' = text
               /\ schema_info' = identify_relevant_schema(text)
          /\ Return("selecting")
          /\ UNCHANGED <<out, failures>>
    /\ UNCHANGED <<store, locked, openConns, schema, qcount, user_question,
                   focused_schema, sql_query, columns, result, prompt_rows>>

\* focused_schema = create_focused_schema(DB_NAME, schema_info)
BuildFocus ==
    /\ pc = "building"
    /\ LET r == create_focused_schema(store, schema_info)
       IN  /\ openConns' = openConns + r.leaked
           /\ IF r.raised
              THEN /\ Raise("building", r.error)
                   /\ UNCHANGED focused_schema
              ELSE /\ focused_schema' = [reasoning |-> schema_info.reasoning,
                                         blocks |-> r.blocks]
                   /\ Return("building")
                   /\ UNCHANGED <<out, failures>>
    /\ UNCHANGED <<store, locked, schema, qcount, user_question,
                   response_text, schema_info, sql_query, columns, result,
                   prompt_rows>>

\* sql_query = generate_sql(...); sql_query = sql_query.strip(backtick)
GenerateSql ==
    /\ pc = "synthesizing"
    /\ \/ /\ Raise("synthesizing", "completion failed")
          /\ UNCHANGED sql_query
       \/ /\ \E text \in SqlTexts : sql_query' = StripTicks(text)
          /\ Return("synthesizing")
          /\ UNCHANGED <<out, failures>>
    /\ UNCHANGED <<store, locked, openConns, schema, qcount, user_question,
                   response_text, schema_info, focused_schema, columns,
                   result, prompt_rows>>

\* columns, result = run_query(DB_NAME, sql_query), then the isinstance test
\* and what either branch prints before get_ans
RunQuery ==
    /\ pc = "executing"
    /\ LET r == run_query(store, locked, sql_query)
       IN  /\ columns' = r.ret.columns
           /\ result' = r.ret.result
           /\ store' = r.store
           /\ locked' = r.locked
           /\ openConns' = openConns + r.leaked
           /\ calls' = Append(calls,
                  Called("run_query",
                         IF r.ret.columns.isNone THEN "sentinel" ELSE "ok"))
           /\ IF IsFailure(r.ret.result)
              THEN /\ out' = [out EXCEPT !.error = r.ret.result.text]
                   /\ failures' = failures + 1
                   /\ pc' = "awaiting"
              ELSE /\ out' = [out EXCEPT !.columns = TRUE]
                   /\ failures' = failures
                   /\ pc' = AfterStage("executing", FALSE)
    /\ UNCHANGED <<schema, qcount, user_question, response_text, schema_info,
                   focused_schema, sql_query, prompt_rows>>

\* final_res = get_ans(user_question, columns, result) and the prints after it
Explain ==
    /\ pc = "explaining"
    /\ prompt_rows' = PromptRows(result.rows)
    /\ \/ Raise("explaining", "completion failed")
       \/ /\ Return("explaining")
          /\ out' = [out EXCEPT !.answer = TRUE,
                                !.rows = DisplayRows(result.rows),
                                !.more = MoreRows(result.rows)]
          /\ UNCHANGED failures
    /\ UNCHANGED <<store, locked, openConns, schema, qcount, user_question,
                   response_text, schema_info, focused_schema, sql_query,
                   columns, result>>

Next ==
    \/ Startup
    \/ AskQuestion
    \/ Quit
    \/ Collect
    \/ SelectSchema
    \/ BuildFocus
    \/ GenerateSql
    \/ RunQuery
    \/ Explain

Spec == Init /\ [][Next]_vars

TypeOK ==
    /\ pc \in {"start", "awaiting", "terminated"} \cup Range(StageOrder)
    /\ DOMAIN store \subseteq TableNames
    /\ openConns \in Nat
    /\ qcount \in 0..MaxQuestions
    /\ failures \in 0..qcount

----------------------------------------------------------------------------
(* Properties *)

HasCall(fn, outcome) ==
    \E i \in 1..Len(calls) : calls[i] = Called(fn, outcome)

WasCalled(fn) == \E i \in 1..Len(calls) : calls[i].fn = fn

FirstN(rows, n) == [i \in 1..Min(Len(rows), n) |-> rows[i]]

\* C1: get_ans is called for a question only after run_query returned
\* (column names, row list) for it; once run_query returned the failure
\* sentinel, get_ans is not called and the only thing reported is the
\* execution error.
C1_ExplainerOnlyAfterSuccess ==
    /\ \A i \in 1..Len(calls) :
         calls[i].fn = "get_ans" =>
           \E j \in 1..(i - 1) : calls[j] = Called("run_query", "ok")
    /\ HasCall("run_query", "sentinel") =>
         /\ ~WasCalled("get_ans")
         /\ pc \in {"awaiting", "terminated"}
         /\ prompt_rows = <<>>
         /\ out = [NoOut EXCEPT !.error = result.text]

C1_Witness ==
    /\ HasCall("run_query", "sentinel")
    /\ pc = "awaiting"
    /\ out.error = "no such table"

\* C2: a stage that fails (raises, or returns the failure sentinel) is
\* followed by the error message and the prompt for the next question; the
\* loop is left only from the prompt, on the quit token.
C2_FailureKeepsSession ==
    [][ /\ (/\ calls' # calls
            /\ calls' # <<>>
            /\ calls'[Len(calls')].outcome \in {"raised", "sentinel"})
           => (pc' = "awaiting" /\ out'.error # "")
        /\ pc' = "terminated"
           => (pc = "awaiting" /\ Lower(user_question') = "quit")
      ]_vars

C2_Witness ==
    /\ failures >= 1
    /\ qcount >= 2
    /\ pc = "selecting"

\* C3 (as claimed): run_query returns the failure sentinel exactly for the
\* statements the store rejects; a statement the store executes returns
\* its column names and its rows.
C3_Original ==
    [][ (pc = "executing" /\ pc' # "executing") =>
          LET e == Execute(store, locked, sql_query)
          IN  /\ columns'.isNone <=> e.rejected
              /\ ~e.rejected => (~result'.isStr /\ result'.rows = e.rows)
      ]_vars

\* C4 (as claimed): for a selection that names a table absent from the
\* store and a table present in it, create_focused_schema returns, with a
\* block for every named table of the store and for no other.
C4_Original ==
    ( /\ Len(calls) = 2
      /\ schema_info.type = "dict"
      /\ \E x, y \in Range(schema_info.tables) :
           x \notin DOMAIN store /\ y \in DOMAIN store )
    => /\ calls[2] = Called("create_focused_schema", "ok")
       /\ { focused_schema.blocks[i].table :
              i \in 1..Len(focused_schema.blocks) }
          = Range(schema_info.tables) \cap DOMAIN store

\* C5 (as claimed): for a response text that is not parseable structured
\* data, identify_relevant_schema returns the empty selection, and the
\* pipeline goes on with it.
C5_Original ==
    ( /\ WasCalled("identify_relevant_schema")
      /\ response_text # NoText
      /\ ~IsJson(response_text) )
    => /\ calls[1] = Called("identify_relevant_schema", "ok")
       /\ schema_info = EmptySelection
       /\ Len(calls) >= 2 => calls[2] = Called("create_focused_schema", "ok")

\* C6 (as claimed): when get_ans fails after a successful query, the column
\* names and the rows of the result are still shown.
C6_Original ==
    HasCall("get_ans", "raised") => (out.columns /\ out.rows = result.rows)

\* C7: the calls of a question are an initial part of the fixed order
\* identify_relevant_schema, create_focused_schema, generate_sql, run_query,
\* get_ans; every call but the last one completed without error, the stage
\* in progress is the next of the order, and run_query is not called when
\* generate_sql failed.
C7_StagesInOrder ==
    /\ Len(calls) <= Len(StageOrder)
    /\ \A i \in 1..Len(calls) : calls[i].fn = StageFn(StageOrder[i])
    /\ \A i \in 1..(Len(calls) - 1) : calls[i].outcome = "ok"
    /\ pc \in Range(StageOrder) =>
         (Len(calls) < Len(StageOrder) /\ pc = StageOrder[Len(calls) + 1])
    /\ HasCall("generate_sql", "raised") => ~WasCalled("run_query")

C7_Witness ==
    /\ HasCall("generate_sql", "raised")
    /\ pc = "awaiting"
    /\ out.error # ""

\* C8 (as claimed): the prompt holds the first min(n, 10) rows and the user
\* is shown all n rows.
C8_Original ==
    HasCall("get_ans", "ok") =>
      /\ prompt_rows = FirstN(result.rows, PromptLimit)
      /\ out.rows = result.rows

\* C8 (amended): the prompt holds the first min(n, 10) rows; the user is
\* never shown other rows than these, and once get_ans has returned the
\* user is shown exactly these, followed for n > 10 by the number n - 10
\* of rows left out.
C8_PromptAndDisplayTruncated ==
    /\ WasCalled("get_ans") => prompt_rows = FirstN(result.rows, PromptLimit)
    /\ out.rows = FirstN(result.rows, Len(out.rows))
    /\ Len(out.rows) <= DisplayLimit
    /\ HasCall("get_ans", "ok") =>
         /\ out.rows = FirstN(result.rows, DisplayLimit)
         /\ out.more = IF Len(result.rows) > DisplayLimit
                       THEN Len(result.rows) - DisplayLimit ELSE 0

C8_Witness ==
    /\ HasCall("get_ans", "ok")
    /\ Len(result.rows) > PromptLimit
    /\ Len(prompt_rows) = PromptLimit
    /\ out.more > 0

\* C9 (as claimed): after the bulk load no step changes the store.
C9_Original == [][ pc # "start" => store' = store ]_vars

\* C10 (as claimed): whenever main() waits for a question, no connection
\* is open.
C10_Original == pc = "awaiting" => openConns = 0

====
